---- MODULE Spec2Model ----
(***************************************************************************)
(* State-machine model of the Hildebrand Glow integrations.                *)
(*                                                                         *)
(*   hildebrandglow_dcc/sensor.py  polling of the Usage and Cost sensors   *)
(*                                 (daily_data), of the TariffCoordinator  *)
(*                                 (tariff_data) and refresh_token         *)
(*   hildebrandglow_dcc/glow.py    Glow._current_data, Glow.authenticate   *)
(*   hildebrandglow/               setup passes and Glow.authenticate      *)
(*                                                                         *)
(* Every step of a process is the code that runs between two awaits of an  *)
(* executor job: asyncio interleaves the entities' updates only there.     *)
(***************************************************************************)
EXTENDS Integers, Sequences, FiniteSets, TLC

VARIABLES
    active,             \* the processes the host runs in this behaviour
    clock,              \* minute-of-hour that datetime.now() yields in this cycle
    hassData,           \* hass.data[DOMAIN][entry_id]: generation of the client stored
    client,             \* generation of the client each process sends its requests through
    pc,                 \* position of each process
    log,                \* per process: the requests completed in the current cycle
    exc,                \* per process: the exception that left the cycle, or None
    initialised,        \* Usage/Cost: self.initialised
    native_value,       \* Usage/Cost: self._attr_native_value, in hundredths
    prev_value,         \* Usage/Cost: native_value when the current cycle began
    rate_initialised,   \* TariffCoordinator.rate_initialised
    standing_initialised, \* TariffCoordinator.standing_initialised
    auth_refreshed,     \* TariffCoordinator.auth_refreshed ("unset": no such attribute)
    data,               \* TariffCoordinator.data
    setup_result,       \* hildebrandglow setup passes: None, "True" or "False"
    resources,          \* hildebrandglow sensor setup: the resources retrieved
    added,              \* hildebrandglow sensor setup: the list given to async_add_entities
    fn,                 \* API client calls: the function under call, or None
    arg,                \* API client calls: its input
    res,                \* API client calls: its outcome, or None
    http,               \* API client calls: the HTTP requests sent so far
    current_state,      \* GlowConsumptionCurrent._state
    available,          \* GlowConsumptionCurrent.available
    Glow_token,         \* hildebrandglow_dcc Glow.token, the attribute of the class
    glows,              \* hildebrandglow_dcc Glow: the instances, in order of construction
    set_tokens          \* history: the values update_token was called with

sensorVars == << initialised, native_value >>
tariffVars == << rate_initialised, standing_initialised, auth_refreshed, data >>
hgVars == << setup_result, resources, added >>
fnVars == << fn, arg, res, http >>
currentVars == << current_state, available >>
glowVars == << Glow_token, glows, set_tokens >>

vars == << active, clock, hassData, client, pc, log, exc, sensorVars, prev_value,
           tariffVars, hgVars, fnVars, currentVars, glowVars >>

----------------------------------------------------------------------------
(* Bounds and input sets *)

\* number of successful re-authentications one behaviour may contain
MaxGen == 1

None == "None"

\* a sensor value that is None, and one that is the number v
NoValue == << >>
Some(v) == << v >>

Sensors == {"usage", "cost"}
Coordinator == "tariff"
\* the entities the host polls (hildebrandglow_dcc)
Pollers == Sensors \cup {Coordinator}
\* the setup passes of hildebrandglow: __init__.async_setup_entry and
\* sensor.async_setup_entry
SetupPasses == {"entry", "platform"}
\* the polled entity of hildebrandglow: one GlowConsumptionCurrent
HgPollers == {"current"}
Procs == Pollers \cup SetupPasses \cup HgPollers

\* minutes-of-hour given to the polling cycles: both ends of both windows,
\* their outer neighbours and the ends of the hour
Minutes == {0, 5, 6, 29, 30, 35, 36, 59}

\* values (in thousandths) the readings endpoint may report
Values == {1234}

\* the tariff the tariff endpoint may report
Tariffs == {"tariff_a"}

\* what resource.catchup / resource.get_readings can do: return, or raise
\* requests.Timeout, requests.exceptions.ConnectionError, an exception whose
\* text holds "Request failed" (a non-200 status), or any other exception
RequestOutcomes == {"ok", "Timeout", "ConnectionError", "RequestFailed", "Other"}

\* resource.get_tariff can also raise UnboundLocalError (no tariff configured)
TariffOutcomes == RequestOutcomes \cup {"UnboundLocalError"}

\* what BrightClient(username, password) can do
AuthOutcomes == {"ok", "Timeout", "ConnectionError", "Other"}

\* hildebrandglow: what Glow.retrieve_devices / Glow.retrieve_resources can do:
\* return (status 200), raise InvalidAuth (any other status) or CannotConnect
SetupOutcomes == {"ok", "InvalidAuth", "CannotConnect"}

\* longest resource list a setup pass is given
MaxResources == 2

\* resource types: the two smart-meter types of GlowConsumptionCurrent and
\* any other type
ResourceTypes == {"elec", "gas", "other"}

ResourceLists == UNION {[1..n -> ResourceTypes] : n \in 0..MaxResources}

\* the responses of POST /auth: {valid, token}, no response in time, or a
\* transport failure
AuthResponses ==
    {[kind |-> k, valid |-> FALSE, token |-> None] : k \in {"timeout", "transport"}}
    \cup {[kind |-> "json", valid |-> v, token |-> "T1"] : v \in BOOLEAN}

\* what self.http.get can do in Glow._current_data: raise requests.Timeout,
\* raise another requests.RequestException, or return a response. A body is
\* JSON without an "error" member ("data"), JSON whose "error" is
\* "incorrect elements -from in the future" ("future"), JSON with another
\* "error" ("other_error"), or no JSON at all ("not_json").
Statuses == {200, 401, 404, 500}
Bodies == {"data", "future", "other_error", "not_json"}
HttpOutcomes ==
    {[kind |-> k, status |-> 0, body |-> None] : k \in {"timeout", "transport"}}
    \cup {[kind |-> "response", status |-> s, body |-> b] : s \in Statuses, b \in Bodies}

\* every minute-of-hour, for should_update
AllMinutes == 0..59

----------------------------------------------------------------------------
(* Pure helpers *)

\* should_update with the upper ends of the windows left out
ShouldUpdateStrict(minutes) ==
    (0 <= minutes /\ minutes < 5) \/ (30 <= minutes /\ minutes < 35)

\* sensor.py should_update: minutes 0..5 and 30..35
ShouldUpdate(minutes) ==
    (0 <= minutes /\ minutes <= 5) \/ (30 <= minutes /\ minutes <= 35)

\* `"Request failed" in str(ex)` in the broad except clauses
IsRequestFailed(out) == out = "RequestFailed"

\* round(n / d) to the nearest integer, ties to even (Python's round)
RoundDiv(n, d) ==
    LET q == n \div d
        r == n % d
    IN  IF 2 * r < d THEN q
        ELSE IF 2 * r > d THEN q + 1
        ELSE IF q % 2 = 0 THEN q ELSE q + 1

\* Usage.async_update: round(value, 2); Cost.async_update: round(value / 100, 2).
\* value is in thousandths, the result in hundredths.
NativeValue(s, value) ==
    IF s = "cost" THEN RoundDiv(value, 1000) ELSE RoundDiv(value, 10)

Event(op, cred, out) == [op |-> op, cred |-> cred, out |-> out]

\* the request of process p, issued through its resource object
Request(p, op, out) == Event(op, client[p], out)

----------------------------------------------------------------------------
(* Polling of the hildebrandglow_dcc entities *)

\* Nothing that polls reads hass.data again after setup, and the two
\* integrations are separate installations: a behaviour runs the two sensors
\* of one resource pair, or the tariff coordinator, or one setup pass, or
\* the polled sensor of hildebrandglow.
Init ==
    /\ active \in {Sensors, {Coordinator}, {"entry"}, {"platform"}, HgPollers}
    /\ clock \in Minutes
    /\ hassData = 0
    /\ client = [p \in Procs |-> 0]
    /\ pc = [p \in Procs |-> "idle"]
    /\ log = [p \in Procs |-> << >>]
    /\ exc = [p \in Procs |-> None]
    /\ initialised = [s \in Sensors |-> FALSE]
    /\ native_value = [s \in Sensors |-> NoValue]
    /\ prev_value = [s \in Sensors |-> NoValue]
    /\ rate_initialised = FALSE
    /\ standing_initialised = FALSE
    /\ auth_refreshed = "unset"
    /\ data = None
    /\ setup_result = [p \in SetupPasses |-> None]
    /\ resources = << >>
    /\ added = None
    /\ fn = None
    /\ arg = None
    /\ res = [kind |-> "none", value |-> None, exc |-> None]
    /\ http = << >>
    /\ current_state = NoValue
    /\ available = TRUE
    /\ Glow_token = NoValue
    /\ glows = << >>
    /\ set_tokens = << >>

Finished(p) == pc[p] \in {"idle", "done", "skipped", "raised"}

\* The host's polling interval elapses: every polled entity is scheduled for
\* one update and the histories of the previous cycle are dropped.
PollTick ==
    /\ active \subseteq Pollers \cup HgPollers
    /\ \A p \in active : Finished(p)
    /\ clock' \in Minutes
    /\ pc' = [p \in Procs |-> IF p \in active THEN "scheduled" ELSE pc[p]]
    /\ log' = [p \in Procs |-> << >>]
    /\ exc' = [p \in Procs |-> None]
    /\ prev_value' = native_value
    /\ UNCHANGED << active, hassData, client, sensorVars, tariffVars, hgVars, fnVars, currentVars, glowVars >>

\* what the cycle of p does when it raises e
Raise(p, e) ==
    /\ pc' = [pc EXCEPT ![p] = "raised"]
    /\ exc' = [exc EXCEPT ![p] = e]

\* async_update without the window test
FetchDueAlways(s) == s \in Sensors

\* async_update applying the window test to the first update as well
FetchDueInWindowOnly(s) == s \in Sensors /\ ShouldUpdate(clock)

\* the test of async_update: fetch on the first update, later only in the window
FetchDue(s) == ~initialised[s] \/ ShouldUpdate(clock)

\* async_update asking for the readings without the catch-up
AsyncUpdateSkipsCatchup(s) ==
    /\ s \in Sensors
    /\ pc[s] = "scheduled"
    /\ IF FetchDue(s)
       THEN pc' = [pc EXCEPT ![s] = "readings"]
       ELSE pc' = [pc EXCEPT ![s] = "skipped"]
    /\ UNCHANGED << active, clock, prev_value, hassData, client, log, exc,
                    sensorVars, tariffVars, hgVars, fnVars, currentVars, glowVars >>

\* Usage.async_update / Cost.async_update up to the first network request of
\* daily_data (the catch-up), or to the end when the window test skips it.
AsyncUpdate(s) ==
    /\ s \in Sensors
    /\ pc[s] = "scheduled"
    /\ IF FetchDue(s)
       THEN pc' = [pc EXCEPT ![s] = "catchup"]
       ELSE pc' = [pc EXCEPT ![s] = "skipped"]
    /\ UNCHANGED << active, clock, prev_value, hassData, client, log, exc,
                    sensorVars, tariffVars, hgVars, fnVars, currentVars, glowVars >>

\* except clauses that send every failed request to refresh_token
LeadsToRefreshOnAnyFailure(out) == out # "ok"

\* the except clauses of daily_data: Timeout and ConnectionError are logged,
\* any other exception leads to refresh_token when its text says so
LeadsToRefresh(out) ==
    out \notin {"ok", "Timeout", "ConnectionError"} /\ IsRequestFailed(out)

\* daily_data: the first catch-up request returns or raises
CatchupReturn(s) ==
    /\ s \in Sensors
    /\ pc[s] = "catchup"
    /\ \E out \in RequestOutcomes :
         /\ log' = [log EXCEPT ![s] = Append(@, Request(s, "catchup", out))]
         /\ IF LeadsToRefresh(out)
            THEN pc' = [pc EXCEPT ![s] = "refresh_catchup"]
            ELSE pc' = [pc EXCEPT ![s] = "readings"]
    /\ UNCHANGED << active, clock, prev_value, hassData, client, exc,
                    sensorVars, tariffVars, hgVars, fnVars, currentVars, glowVars >>

\* where the caller of refresh_token goes on when it returns
AfterRefresh(at) ==
    CASE at = "refresh_catchup" -> "catchup_retry"
      [] at = "refresh_readings" -> "readings_retry"
      [] at = "refresh_tariff" -> "tariff_retry"

\* refresh_token that logs a failure of BrightClient instead of raising
RefreshTokenSwallow(p) ==
    /\ p \in Pollers
    /\ pc[p] \in {"refresh_catchup", "refresh_readings", "refresh_tariff"}
    /\ \E out \in AuthOutcomes :
         /\ out = "ok" => hassData < MaxGen
         /\ hassData' = IF out = "ok" THEN hassData + 1 ELSE hassData
         /\ log' = [log EXCEPT ![p] = Append(@, Event("auth", hassData', out))]
         /\ pc' = [pc EXCEPT ![p] = AfterRefresh(pc[p])]
         /\ auth_refreshed' = IF p = Coordinator THEN "true" ELSE auth_refreshed
         /\ exc' = exc
    /\ UNCHANGED << active, clock, prev_value, client, sensorVars,
                    rate_initialised, standing_initialised, data, hgVars, fnVars, currentVars, glowVars >>

\* refresh_token: BrightClient(username, password) returns a new client, which
\* is stored in hass.data, or raises, which becomes ConfigEntryNotReady. The
\* caller's resource object is not touched. tariff_data then sets auth_refreshed.
RefreshToken(p) ==
    /\ p \in Pollers
    /\ pc[p] \in {"refresh_catchup", "refresh_readings", "refresh_tariff"}
    /\ \E out \in AuthOutcomes :
         IF out = "ok"
         THEN /\ hassData < MaxGen
              /\ hassData' = hassData + 1
              /\ log' = [log EXCEPT ![p] = Append(@, Event("auth", hassData + 1, out))]
              /\ pc' = [pc EXCEPT ![p] = AfterRefresh(pc[p])]
              /\ auth_refreshed' = IF p = Coordinator THEN "true" ELSE auth_refreshed
              /\ exc' = exc
         ELSE /\ log' = [log EXCEPT ![p] = Append(@, Event("auth", hassData, out))]
              /\ Raise(p, "ConfigEntryNotReady")
              /\ UNCHANGED << hassData, auth_refreshed >>
    /\ UNCHANGED << active, clock, prev_value, client, sensorVars,
                    rate_initialised, standing_initialised, data, hgVars, fnVars, currentVars, glowVars >>

\* daily_data: the catch-up repeated after refresh_token; whatever it does is
\* only logged
CatchupRetryReturn(s) ==
    /\ s \in Sensors
    /\ pc[s] = "catchup_retry"
    /\ \E out \in RequestOutcomes :
         log' = [log EXCEPT ![s] = Append(@, Request(s, "catchup", out))]
    /\ pc' = [pc EXCEPT ![s] = "readings"]
    /\ UNCHANGED << active, clock, prev_value, hassData, client, exc,
                    sensorVars, tariffVars, hgVars, fnVars, currentVars, glowVars >>

\* daily_data returning an empty value when `readings` was never assigned
StoreReadingClears(s, bound, value) ==
    /\ native_value' = [native_value EXCEPT
                           ![s] = IF bound THEN Some(NativeValue(s, value)) ELSE NoValue]
    /\ initialised' = [initialised EXCEPT ![s] = TRUE]
    /\ pc' = [pc EXCEPT ![s] = "done"]
    /\ exc' = exc

\* `return readings[0][1].value` and the assignments of async_update that
\* follow it; bound is whether the local `readings` was assigned
StoreReading(s, bound, value) ==
    IF bound
    THEN /\ native_value' = [native_value EXCEPT ![s] = Some(NativeValue(s, value))]
         /\ initialised' = [initialised EXCEPT ![s] = TRUE]
         /\ pc' = [pc EXCEPT ![s] = "done"]
         /\ exc' = exc
    ELSE /\ Raise(s, "UnboundLocalError")
         /\ UNCHANGED sensorVars

\* daily_data: the readings request returns or raises
ReadingsReturn(s) ==
    /\ s \in Sensors
    /\ pc[s] = "readings"
    /\ \E out \in RequestOutcomes, value \in Values :
         /\ log' = [log EXCEPT ![s] = Append(@, Request(s, "readings", out))]
         /\ IF LeadsToRefresh(out)
            THEN /\ pc' = [pc EXCEPT ![s] = "refresh_readings"]
                 /\ UNCHANGED << exc, sensorVars >>
            ELSE StoreReading(s, out = "ok", value)
    /\ UNCHANGED << active, clock, prev_value, hassData, client, tariffVars, hgVars, fnVars, currentVars, glowVars >>

\* daily_data: the readings request repeated after refresh_token
ReadingsRetryReturn(s) ==
    /\ s \in Sensors
    /\ pc[s] = "readings_retry"
    /\ \E out \in RequestOutcomes, value \in Values :
         /\ log' = [log EXCEPT ![s] = Append(@, Request(s, "readings", out))]
         /\ StoreReading(s, out = "ok", value)
    /\ UNCHANGED << active, clock, prev_value, hassData, client, tariffVars, hgVars, fnVars, currentVars, glowVars >>

----------------------------------------------------------------------------
(* The tariff coordinator *)

\* _async_update_data with one unconditional refresh instead of two: the
\* first refresh sets both flags
CoordinatorUpdateOneLoop ==
    /\ pc[Coordinator] = "scheduled"
    /\ IF ~standing_initialised
       THEN /\ rate_initialised' = TRUE
            /\ standing_initialised' = TRUE
            /\ pc' = [pc EXCEPT ![Coordinator] = "tariff"]
            /\ data' = data
       ELSE /\ UNCHANGED << rate_initialised, standing_initialised >>
            /\ IF ShouldUpdate(clock)
               THEN pc' = [pc EXCEPT ![Coordinator] = "tariff"] /\ data' = data
               ELSE pc' = [pc EXCEPT ![Coordinator] = "skipped"] /\ data' = None
    /\ UNCHANGED << active, clock, prev_value, hassData, client, log, exc, sensorVars,
                    auth_refreshed, hgVars, fnVars, currentVars, glowVars >>

\* TariffCoordinator._async_update_data up to the tariff request of
\* tariff_data, or to its end (an implicit None) outside the window
CoordinatorUpdate ==
    /\ pc[Coordinator] = "scheduled"
    /\ IF ~standing_initialised
       THEN /\ IF ~rate_initialised
               THEN rate_initialised' = TRUE /\ UNCHANGED standing_initialised
               ELSE standing_initialised' = TRUE /\ UNCHANGED rate_initialised
            /\ pc' = [pc EXCEPT ![Coordinator] = "tariff"]
            /\ data' = data
       ELSE /\ UNCHANGED << rate_initialised, standing_initialised >>
            /\ IF ShouldUpdate(clock)
               THEN pc' = [pc EXCEPT ![Coordinator] = "tariff"] /\ data' = data
               ELSE pc' = [pc EXCEPT ![Coordinator] = "skipped"] /\ data' = None
    /\ UNCHANGED << active, clock, prev_value, hassData, client, log, exc, sensorVars,
                    auth_refreshed, hgVars, fnVars, currentVars, glowVars >>

\* _async_update_data returns value, which becomes the coordinator's data
TariffResult(value) ==
    /\ pc' = [pc EXCEPT ![Coordinator] = "done"]
    /\ data' = value
    /\ exc' = exc

\* tariff_data without its `except UnboundLocalError` clause: the absent
\* tariff falls to the broad except clause
TariffReturnNoTariffClause ==
    /\ pc[Coordinator] \in {"tariff", "tariff_retry"}
    /\ \E out \in TariffOutcomes, tariff \in Tariffs :
         /\ log' = [log EXCEPT ![Coordinator] = Append(@, Request(Coordinator, "tariff", out))]
         /\ LET inner == pc[Coordinator] = "tariff_retry" IN
            IF out = "ok"
            THEN TariffResult(IF inner THEN None ELSE tariff)
            ELSE IF out \in {"Timeout", "ConnectionError"}
            THEN TariffResult(None)
            ELSE IF auth_refreshed = "unset"
            THEN Raise(Coordinator, "AttributeError") /\ data' = data
            ELSE TariffResult(None)
    /\ UNCHANGED << active, clock, prev_value, hassData, client, sensorVars, rate_initialised,
                    standing_initialised, auth_refreshed, hgVars, fnVars, currentVars, glowVars >>

\* tariff_data: the tariff request returns or raises. In the call that
\* tariff_data makes to itself after refresh_token ("tariff_retry") the
\* handler is the same, and the outer call drops what the inner one returns.
TariffReturn ==
    /\ pc[Coordinator] \in {"tariff", "tariff_retry"}
    /\ \E out \in TariffOutcomes, tariff \in Tariffs :
         /\ log' = [log EXCEPT ![Coordinator] = Append(@, Request(Coordinator, "tariff", out))]
         /\ LET inner == pc[Coordinator] = "tariff_retry" IN
            IF out = "ok"
            THEN TariffResult(IF inner THEN None ELSE tariff)
            ELSE IF out \in {"UnboundLocalError", "Timeout", "ConnectionError"}
            THEN TariffResult(None)
            ELSE IF IsRequestFailed(out) /\ auth_refreshed = "unset"
            THEN Raise(Coordinator, "AttributeError") /\ data' = data
            ELSE IF IsRequestFailed(out) /\ auth_refreshed = "false"
            THEN /\ pc' = [pc EXCEPT ![Coordinator] = "refresh_tariff"]
                 /\ UNCHANGED << exc, data >>
            ELSE TariffResult(None)
    /\ UNCHANGED << active, clock, prev_value, hassData, client, sensorVars, rate_initialised,
                    standing_initialised, auth_refreshed, hgVars, fnVars, currentVars, glowVars >>

----------------------------------------------------------------------------
(* The API client: hildebrandglow_dcc/glow.py and hildebrandglow/glow.py *)

NoResult == [kind |-> "none", value |-> None, exc |-> None]
Return(value) == [kind |-> "return", value |-> value, exc |-> None]
Raised(e) == [kind |-> "raise", value |-> None, exc |-> e]

\* hildebrandglow_dcc Glow.authenticate: the outcome for a response of POST
\* /auth; the value returned is the token carried by the data returned
Authenticate(resp) ==
    IF resp.kind = "timeout" THEN Raised("CannotConnect")
    ELSE IF resp.kind = "transport" THEN Raised("ConnectionError")
    ELSE IF resp.valid THEN Return(resp.token)
    ELSE Raised("InvalidAuth")

\* hildebrandglow Glow.authenticate: the token is assigned to self.token and
\* the method returns nothing
AuthenticateHg(resp) ==
    IF resp.kind = "timeout" THEN Raised("CannotConnect")
    ELSE IF resp.kind = "transport" THEN Raised("ConnectionError")
    ELSE IF resp.valid THEN Return(None)
    ELSE Raised("InvalidAuth")

\* _current_data testing the status before the error text
CurrentDataResultStatusFirst(r) ==
    IF r.kind # "response" THEN Return(None)
    ELSE IF r.status = 200
    THEN IF r.body = "not_json" THEN Raised("JSONDecodeError") ELSE Return(r.body)
    ELSE IF r.status \in {401, 404} THEN Raised("InvalidAuth")
    ELSE IF r.body = "not_json" THEN Raised("JSONDecodeError")
    ELSE IF r.body = "data" THEN Raised("KeyError")
    ELSE Return(None)

\* Glow._current_data after its last self.http.get: the except clauses and
\* the status tests, in the order of the code
CurrentDataResult(r) ==
    IF r.kind = "timeout" THEN Return(None)
    ELSE IF r.kind = "transport" THEN Return(None)
    ELSE IF r.status # 200
    THEN IF r.body = "not_json" THEN Raised("JSONDecodeError")
         ELSE IF r.body = "data" THEN Raised("KeyError")
         ELSE IF r.body = "future" THEN Return(None)
         ELSE IF r.status = 401 THEN Raised("InvalidAuth")
         ELSE IF r.status = 404 THEN Raised("InvalidAuth")
         ELSE Return(None)
    ELSE IF r.body = "not_json" THEN Raised("JSONDecodeError")
         ELSE Return(r.body)

pollVars == << active, clock, hassData, client, pc, log, exc, sensorVars,
               prev_value, tariffVars, hgVars, currentVars >>

\* should_update() at minute m
CallShouldUpdate ==
    /\ \E m \in AllMinutes :
         /\ fn' = "should_update"
         /\ arg' = m
         /\ res' = Return(ShouldUpdate(m))
    /\ http' = << >>
    /\ UNCHANGED << pollVars, glowVars >>

\* hildebrandglow_dcc Glow.authenticate(app_id, username, password)
CallAuthenticate ==
    /\ \E resp \in AuthResponses :
         /\ fn' = "authenticate"
         /\ arg' = resp
         /\ res' = Authenticate(resp)
    /\ http' = << >>
    /\ UNCHANGED << pollVars, glowVars >>

\* hildebrandglow Glow.authenticate(self)
CallAuthenticateHg ==
    /\ \E resp \in AuthResponses :
         /\ fn' = "authenticate_hg"
         /\ arg' = resp
         /\ res' = AuthenticateHg(resp)
    /\ http' = << >>
    /\ UNCHANGED << pollVars, glowVars >>

\* a time of day is << hour, minute, second >>; a <= b on datetime.time
TimeLE(a, b) ==
    \/ a[1] < b[1]
    \/ a[1] = b[1] /\ a[2] < b[2]
    \/ a[1] = b[1] /\ a[2] = b[2] /\ a[3] <= b[3]

\* the times of day daily_data is called at: midnight, the seconds around
\* 01:05:00 and 01:06:00, noon and the last second of the day
DayTimes == { << 0, 0, 0 >>, << 1, 4, 59 >>, << 1, 5, 0 >>, << 1, 5, 1 >>,
              << 1, 5, 59 >>, << 1, 6, 0 >>, << 12, 0, 0 >>, << 23, 59, 59 >> }

\* daily_data: the day whose window is queried,
\* `if datetime.now().time() <= time(1, 5)`
DailyWindow(t) == IF TimeLE(t, << 1, 5, 0 >>) THEN "yesterday" ELSE "today"

\* daily_data(self) at time of day t, up to the choice of the window
CallDailyData ==
    /\ \E t \in DayTimes :
         /\ fn' = "daily_data"
         /\ arg' = t
         /\ res' = Return(DailyWindow(t))
    /\ http' = << >>
    /\ UNCHANGED << pollVars, glowVars >>

\* Glow._current_data(resource, url, catchup) is entered; the first request
\* (the catch-up when catchup is set, else the url) is sent
CurrentDataCall ==
    /\ fn # "_current_data" \/ res.kind # "none"
    /\ \E catchup \in BOOLEAN :
         arg' = [catchup |-> catchup]
    /\ fn' = "_current_data"
    /\ res' = NoResult
    /\ http' = << >>
    /\ UNCHANGED << pollVars, glowVars >>

CatchupInFlight ==
    fn = "_current_data" /\ res.kind = "none" /\ arg.catchup /\ Len(http) = 0

UrlInFlight ==
    fn = "_current_data" /\ res.kind = "none" /\ ~CatchupInFlight

\* the catch-up request ends: an exception ends the call, a response is
\* dropped and the url is requested
CurrentDataCatchupReturn ==
    /\ CatchupInFlight
    /\ \E r \in HttpOutcomes :
         /\ http' = Append(http, [url |-> "catchup", resp |-> r])
         /\ res' = IF r.kind = "response" THEN NoResult ELSE CurrentDataResult(r)
    /\ UNCHANGED << fn, arg, pollVars, glowVars >>

\* the request of the url ends
CurrentDataReturn ==
    /\ UrlInFlight
    /\ \E r \in HttpOutcomes :
         /\ http' = Append(http, [url |-> "url", resp |-> r])
         /\ res' = CurrentDataResult(r)
    /\ UNCHANGED << fn, arg, pollVars, glowVars >>

----------------------------------------------------------------------------
(* The setup passes of hildebrandglow *)

\* GlowConsumptionCurrent.resourceTypeId
Supported(type) == type \in {"elec", "gas"}

\* A setup pass begins. __init__.async_setup_entry builds its Glow from the
\* entry and asks for the devices; sensor.async_setup_entry takes the Glow of
\* hass.data and asks for the resources.
SetupStart(p) ==
    /\ p \in SetupPasses
    /\ p \in active
    /\ Finished(p)
    /\ pc' = [pc EXCEPT ![p] = IF p = "entry" THEN "devices" ELSE "resources"]
    /\ client' = [client EXCEPT ![p] = IF p = "entry" THEN 0 ELSE hassData]
    /\ log' = [log EXCEPT ![p] = << >>]
    /\ exc' = [exc EXCEPT ![p] = None]
    /\ setup_result' = [setup_result EXCEPT ![p] = None]
    /\ resources' = << >>
    /\ added' = None
    /\ UNCHANGED << active, clock, prev_value, hassData, sensorVars, tariffVars, fnVars, currentVars, glowVars >>

\* the pass returns value
SetupReturn(p, value) ==
    /\ pc' = [pc EXCEPT ![p] = "done"]
    /\ setup_result' = [setup_result EXCEPT ![p] = value]
    /\ exc' = exc

\* __init__.retrieve_cad_hardwareId: the device list arrives; found is
\* whether it holds the Glow stick
EntryDevicesReturn ==
    /\ pc["entry"] = "devices"
    /\ \E out \in SetupOutcomes, found \in BOOLEAN :
         /\ log' = [log EXCEPT !["entry"] = Append(@, Request("entry", "devices", out))]
         /\ IF out = "InvalidAuth"
            THEN pc' = [pc EXCEPT !["entry"] = "handle_failed_auth"] /\ exc' = exc
            ELSE IF out = "CannotConnect" THEN Raise("entry", "CannotConnect")
            ELSE IF ~found THEN Raise("entry", "TypeError")
            ELSE pc' = [pc EXCEPT !["entry"] = "resources"] /\ exc' = exc
    /\ UNCHANGED << active, clock, prev_value, hassData, client, sensorVars, tariffVars,
                    hgVars, fnVars, currentVars, glowVars >>

\* __init__.async_setup_entry: the resource list arrives
EntryResourcesReturn ==
    /\ pc["entry"] = "resources"
    /\ \E out \in SetupOutcomes :
         /\ log' = [log EXCEPT !["entry"] = Append(@, Request("entry", "resources", out))]
         /\ IF out = "InvalidAuth"
            THEN /\ pc' = [pc EXCEPT !["entry"] = "handle_failed_auth"]
                 /\ UNCHANGED << exc, setup_result, hassData >>
            ELSE IF out = "CannotConnect"
            THEN Raise("entry", "CannotConnect") /\ UNCHANGED << setup_result, hassData >>
            ELSE /\ hassData' = client["entry"]
                 /\ SetupReturn("entry", "True")
    /\ UNCHANGED << active, clock, prev_value, client, sensorVars, tariffVars, resources,
                    added, fnVars, currentVars, glowVars >>

\* handle_failed_auth of either pass, and what the pass does with its outcome.
\* It is written against the classmethod Glow.authenticate(app_id, username,
\* password). __init__.async_setup_entry returns False whether it succeeds or
\* raises InvalidAuth; sensor.async_setup_entry returns False on InvalidAuth
\* and else asks for the resources again with the new Glow.
HandleFailedAuth(p) ==
    /\ p \in SetupPasses
    /\ pc[p] = "handle_failed_auth"
    /\ \E resp \in AuthResponses :
         LET r == Authenticate(resp) IN
         IF r.kind = "return"
         THEN /\ hassData < MaxGen
              /\ hassData' = hassData + 1
              /\ log' = [log EXCEPT ![p] = Append(@, Event("auth", hassData + 1, "ok"))]
              /\ IF p = "entry"
                 THEN SetupReturn(p, "False") /\ client' = client
                 ELSE /\ client' = [client EXCEPT ![p] = hassData + 1]
                      /\ pc' = [pc EXCEPT ![p] = "resources_retry"]
                      /\ UNCHANGED << exc, setup_result >>
         ELSE /\ log' = [log EXCEPT ![p] = Append(@, Event("auth", hassData, r.exc))]
              /\ IF r.exc = "InvalidAuth"
                 THEN SetupReturn(p, "False")
                 ELSE Raise(p, r.exc) /\ setup_result' = setup_result
              /\ UNCHANGED << hassData, client >>
    /\ UNCHANGED << active, clock, prev_value, sensorVars, tariffVars, resources, added, fnVars, currentVars, glowVars >>

\* the indices of the resources for which a sensor is created
NewEntities(list) == SelectSeq([i \in 1..Len(list) |-> i], LAMBDA i : Supported(list[i]))

\* sensor.async_setup_entry: the resource list arrives, at the first request
\* or at the one after handle_failed_auth; the sensors are created and
\* async_add_entities([sensor]) is called with the local of the loop
PlatformResourcesReturn ==
    /\ pc["platform"] \in {"resources", "resources_retry"}
    /\ \E out \in SetupOutcomes, list \in ResourceLists :
         /\ log' = [log EXCEPT !["platform"] = Append(@, Request("platform", "resources", out))]
         /\ IF out = "InvalidAuth" /\ pc["platform"] = "resources"
            THEN /\ pc' = [pc EXCEPT !["platform"] = "handle_failed_auth"]
                 /\ UNCHANGED << exc, hgVars >>
            ELSE IF out # "ok"
            THEN Raise("platform", out) /\ UNCHANGED hgVars
            ELSE /\ resources' = list
                 /\ IF NewEntities(list) = << >>
                    THEN /\ Raise("platform", "UnboundLocalError")
                         /\ UNCHANGED << setup_result, added >>
                    ELSE /\ added' = << NewEntities(list)[Len(NewEntities(list))] >>
                         /\ SetupReturn("platform", "True")
    /\ UNCHANGED << active, clock, prev_value, hassData, client, sensorVars, tariffVars, fnVars, currentVars, glowVars >>

----------------------------------------------------------------------------
(* The polled sensor of hildebrandglow *)

\* GlowConsumptionCurrent.async_update up to its request: glow.current_usage
\* is handed to the executor
CurrentUpdate ==
    /\ pc["current"] = "scheduled"
    /\ pc' = [pc EXCEPT !["current"] = "current_usage"]
    /\ UNCHANGED << active, clock, prev_value, hassData, client, log, exc, sensorVars,
                    tariffVars, hgVars, fnVars, currentVars, glowVars >>

\* glow.current_usage returns (status 200) or raises InvalidAuth (any other
\* status) or CannotConnect (timeout); async_update stores the data, or
\* catches InvalidAuth and clears self.available; CannotConnect leaves it
CurrentUsageReturn ==
    /\ pc["current"] = "current_usage"
    /\ \E out \in SetupOutcomes, value \in Values :
         /\ log' = [log EXCEPT !["current"] = Append(@, Request("current", "current", out))]
         /\ IF out = "ok"
            THEN /\ current_state' = Some(value)
                 /\ pc' = [pc EXCEPT !["current"] = "done"]
                 /\ UNCHANGED << available, exc >>
            ELSE IF out = "InvalidAuth"
            THEN /\ available' = FALSE
                 /\ pc' = [pc EXCEPT !["current"] = "done"]
                 /\ UNCHANGED << current_state, exc >>
            ELSE /\ Raise("current", out)
                 /\ UNCHANGED currentVars
    /\ UNCHANGED << active, clock, prev_value, hassData, client, sensorVars, tariffVars,
                    hgVars, fnVars, glowVars >>

----------------------------------------------------------------------------
(* Specifications *)

Next ==
    \/ PollTick
    \/ \E s \in Sensors : AsyncUpdate(s)
    \/ \E s \in Sensors : CatchupReturn(s)
    \/ \E s \in Sensors : CatchupRetryReturn(s)
    \/ \E s \in Sensors : ReadingsReturn(s)
    \/ \E s \in Sensors : ReadingsRetryReturn(s)
    \/ \E p \in Pollers : RefreshToken(p)
    \/ CoordinatorUpdate
    \/ TariffReturn
    \/ \E p \in SetupPasses : SetupStart(p)
    \/ EntryDevicesReturn
    \/ EntryResourcesReturn
    \/ \E p \in SetupPasses : HandleFailedAuth(p)
    \/ PlatformResourcesReturn
    \/ CurrentUpdate
    \/ CurrentUsageReturn

\* the integrations at work
Spec == Init /\ [][Next]_vars

\* the API client and should_update, one call at a time
InitFn ==
    /\ active = {}
    /\ clock = 0
    /\ hassData = 0
    /\ client = [p \in Procs |-> 0]
    /\ pc = [p \in Procs |-> "idle"]
    /\ log = [p \in Procs |-> << >>]
    /\ exc = [p \in Procs |-> None]
    /\ initialised = [s \in Sensors |-> FALSE]
    /\ native_value = [s \in Sensors |-> NoValue]
    /\ prev_value = [s \in Sensors |-> NoValue]
    /\ rate_initialised = FALSE
    /\ standing_initialised = FALSE
    /\ auth_refreshed = "unset"
    /\ data = None
    /\ setup_result = [p \in SetupPasses |-> None]
    /\ resources = << >>
    /\ added = None
    /\ fn = None
    /\ arg = None
    /\ res = NoResult
    /\ http = << >>
    /\ current_state = NoValue
    /\ available = TRUE
    /\ Glow_token = NoValue
    /\ glows = << >>
    /\ set_tokens = << >>

NextFn ==
    \/ CallShouldUpdate
    \/ CallAuthenticate
    \/ CallAuthenticateHg
    \/ CallDailyData
    \/ CurrentDataCall
    \/ CurrentDataCatchupReturn
    \/ CurrentDataReturn

SpecFn == InitFn /\ [][NextFn]_vars

----------------------------------------------------------------------------
(* Sensor setup of hildebrandglow_dcc *)

\* longest resource list of one virtual entity
MaxClassified == 2

\* resource.classifier: the four the setup knows, and any other
UsageClassifiers == {"electricity.consumption", "gas.consumption"}
CostClassifiers == {"electricity.consumption.cost", "gas.consumption.cost"}
Classifiers == UsageClassifiers \cup CostClassifiers \cup {"other"}

\* what virtual_entity.get_resources gives: the resources, or an exception,
\* after which `resources` is still the empty dict
ClassifierLists == UNION {[1..n -> Classifiers] : n \in 0..MaxClassified}
VirtualEntities ==
    {[out |-> "ok", resources |-> l] : l \in ClassifierLists}
    \cup {[out |-> o, resources |-> << >>] : o \in {"Timeout", "ConnectionError", "Other"}}

\* what glowmarkt.get_virtual_entities gives: none, one or two virtual
\* entities, or an exception, after which `virtual_entities` is the empty dict
Accounts ==
    {[out |-> "ok", ves |-> l] :
        l \in {<< >>} \cup {<< a >> : a \in VirtualEntities}
                     \cup {<< a, b >> : a, b \in VirtualEntities}}
    \cup {[out |-> o, ves |-> << >>] : o \in {"Timeout", "ConnectionError", "Other"}}

\* the resource at place i of virtual entity v
ResourceRef(v, i) == [ve |-> v, at |-> i]

\* an entity of the list given to async_add_entities
Entity(kind, v, i, classifier, meter) ==
    [kind |-> kind, of |-> ResourceRef(v, i), classifier |-> classifier, meter |-> meter]

\* d[k] = x on a dict
Put(d, k, x) == [y \in DOMAIN d \cup {k} |-> IF y = k THEN x ELSE d[y]]

\* the key of `meters` a cost classifier is looked up with
MeterKey(classifier) ==
    IF classifier = "gas.consumption.cost" THEN "gas.consumption"
    ELSE "electricity.consumption"

\* the first loop over the resources of virtual entity v: a Usage, a Standing
\* and a Rate sensor for every consumption resource, the Usage sensor saved
\* in `meters` under its classifier
RECURSIVE UsageLoop(_, _, _, _)
UsageLoop(v, list, i, st) ==
    IF i > Len(list) THEN st
    ELSE IF list[i] \in UsageClassifiers
    THEN UsageLoop(v, list, i + 1,
            [st EXCEPT !.entities = @ \o << Entity("usage", v, i, list[i], NoValue),
                                           Entity("standing", v, i, list[i], NoValue),
                                           Entity("rate", v, i, list[i], NoValue) >>,
                       !.meters = Put(@, list[i], ResourceRef(v, i))])
    ELSE UsageLoop(v, list, i + 1, st)

\* the second loop: a Cost sensor for every cost resource, its meter looked
\* up in `meters`; a missing key raises KeyError out of the setup
RECURSIVE CostLoop(_, _, _, _)
CostLoop(v, list, i, st) ==
    IF i > Len(list) \/ st.raised # None THEN st
    ELSE IF list[i] \in CostClassifiers
    THEN IF MeterKey(list[i]) \in DOMAIN st.meters
         THEN CostLoop(v, list, i + 1,
                 [st EXCEPT !.entities =
                     @ \o << Entity("cost", v, i, list[i], Some(st.meters[MeterKey(list[i])])) >>])
         ELSE [st EXCEPT !.raised = "KeyError"]
    ELSE CostLoop(v, list, i + 1, st)

\* the loop over the virtual entities; `entities` and `meters` are created
\* once, before it
RECURSIVE EntityLoop(_, _, _)
EntityLoop(ves, v, st) ==
    IF v > Len(ves) \/ st.raised # None THEN st
    ELSE EntityLoop(ves, v + 1,
            CostLoop(v, ves[v].resources, 1, UsageLoop(v, ves[v].resources, 1, st)))

\* async_setup_entry for an account: the list given to async_add_entities,
\* or the exception that leaves the setup
SetupEntry(account) ==
    LET st == EntityLoop(account.ves, 1,
                         [entities |-> << >>, meters |-> << >>, raised |-> None])
    IN  IF st.raised # None THEN Raised(st.raised) ELSE Return(st.entities)

\* the state of everything that is polled, before anything is set up
PollIdle ==
    /\ active = {}
    /\ clock = 0
    /\ hassData = 0
    /\ client = [p \in Procs |-> 0]
    /\ pc = [p \in Procs |-> "idle"]
    /\ log = [p \in Procs |-> << >>]
    /\ exc = [p \in Procs |-> None]
    /\ initialised = [s \in Sensors |-> FALSE]
    /\ native_value = [s \in Sensors |-> NoValue]
    /\ prev_value = [s \in Sensors |-> NoValue]
    /\ rate_initialised = FALSE
    /\ standing_initialised = FALSE
    /\ auth_refreshed = "unset"
    /\ data = None
    /\ setup_result = [p \in SetupPasses |-> None]
    /\ resources = << >>
    /\ added = None
    /\ current_state = NoValue
    /\ available = TRUE
    /\ Glow_token = NoValue
    /\ glows = << >>
    /\ set_tokens = << >>

\* the host calls async_setup_entry for a config entry whose account is arg
InitSetup ==
    /\ PollIdle
    /\ fn = "async_setup_entry"
    /\ arg \in Accounts
    /\ res = NoResult
    /\ http = << >>

\* async_setup_entry runs to its end
DccSetupEntry ==
    /\ fn = "async_setup_entry"
    /\ res = NoResult
    /\ res' = SetupEntry(arg)
    /\ UNCHANGED << fn, arg, http, pollVars, glowVars >>

NextSetup == DccSetupEntry

\* the sensor setup of hildebrandglow_dcc, for every account
SpecSetup == InitSetup /\ [][NextSetup]_vars

----------------------------------------------------------------------------
(* The MQTT payload decoder of hildebrandglow: mqttpayload.py *)

\* A hex string is the sequence of its characters; a JSON object is a
\* function on the keys it holds.
HexChars == << "0", "1", "2", "3", "4", "5", "6", "7",
               "8", "9", "A", "B", "C", "D", "E", "F" >>

\* int(h, 16)
RECURSIVE HexInt(_)
HexInt(h) ==
    IF h = << >> THEN 0
    ELSE 16 * HexInt(SubSeq(h, 1, Len(h) - 1))
         + (CHOOSE d \in 0..15 : HexChars[d + 1] = h[Len(h)])

\* the sub-blocks of a "0702" map that the decoder reads
Blocks == {"00", "02", "03", "04", "0C"}

\* the attribute keys of each sub-block that the model follows: summation
\* delivered and supply status, meter status, unit of measure, and the week
\* and month consumption of both historical blocks. The other attributes are
\* read by the same conditional expressions.
AttributeKeys(block) ==
    CASE block = "00" -> {"00", "14"}
      [] block = "02" -> {"00"}
      [] block = "03" -> {"00"}
      [] block = "04" -> {"30", "40"}
      [] block = "0C" -> {"30", "40"}

\* the value a payload carries under an attribute key
Sample(block, key) ==
    CASE block = "00" /\ key = "00" -> << "0", "1", "A", "2" >>
      [] block = "00" /\ key = "14" -> << "0", "2" >>
      [] block = "02" -> << "0", "0" >>
      [] block = "03" -> << "0", "1" >>
      [] block = "04" /\ key = "30" -> << "1", "A" >>
      [] block = "04" /\ key = "40" -> << "2", "B" >>
      [] block = "0C" /\ key = "30" -> << "0", "C" >>
      [] block = "0C" /\ key = "40" -> << "3", "D" >>

\* the attribute maps a sub-block can be, and a sub-block that is missing
\* (NoValue) or present (Some)
AttributeMaps(block) ==
    {[k \in S |-> Sample(block, k)] : S \in SUBSET AttributeKeys(block)}
OptionalMaps(block) == {NoValue} \cup {Some(m) : m \in AttributeMaps(block)}

\* the JSON object that holds the members that are present
Dict(members) ==
    [k \in {x \in DOMAIN members : members[x] # NoValue} |-> members[k][1]]

\* the "0702" maps of a meter section
Clusters ==
    {Dict([b \in Blocks |->
            CASE b = "00" -> x0 [] b = "02" -> x2 [] b = "03" -> x3
              [] b = "04" -> x4 [] b = "0C" -> xC]) :
        x0 \in OptionalMaps("00"), x2 \in OptionalMaps("02"), x3 \in OptionalMaps("03"),
        x4 \in OptionalMaps("04"), xC \in OptionalMaps("0C")}

\* the "0702" maps with no other sub-blocks than "00" and "03"
BasicClusters == {c \in Clusters : DOMAIN c \subseteq {"00", "03"}}

MeterKeys == {"elecMtr", "gasMtr"}

\* the payload of a message: not JSON, or a JSON object with any of the two
\* meter sections, each given by its "0702" map
Messages ==
    {[json |-> FALSE, body |-> << >>]}
    \cup {[json |-> TRUE,
           body |-> Dict([k \in MeterKeys |-> IF k = "elecMtr" THEN e ELSE g])] :
            e, g \in {NoValue} \cup {Some(c) : c \in BasicClusters}}

\* payload["0702"][block] if block in payload["0702"] else {}
Block(cluster, block) == IF block \in DOMAIN cluster THEN cluster[block] ELSE << >>

\* int(map[key], 16) if key in map else None
IntOrNone(map, key) == IF key \in DOMAIN map THEN Some(HexInt(map[key])) ELSE NoValue

\* map.get(key)
Get(map, key) == IF key \in DOMAIN map THEN Some(map[key]) ELSE NoValue

\* Meter.ReadingInformationSet.SupplyStatus(value)
SupplyStatus(value) ==
    CASE value = << "0", "0" >> -> "OFF"
      [] value = << "0", "1" >> -> "ARMED"
      [] value = << "0", "2" >> -> "ON"

\* Meter.Formatting.UnitofMeasure(value)
UnitofMeasure(value) ==
    CASE value = << "0", "0" >> -> "KWH"
      [] value = << "0", "1" >> -> "M3"

\* Meter.ReadingInformationSet.__init__
ReadingInformationSet(cluster) ==
    LET reading_information_set == Block(cluster, "00") IN
    [current_summation_delivered |-> IntOrNone(reading_information_set, "00"),
     supply_status |-> SupplyStatus(IF "14" \in DOMAIN reading_information_set
                                    THEN reading_information_set["14"]
                                    ELSE << "0", "0" >>)]

\* Meter.MeterStatus.__init__
MeterStatus(cluster) ==
    [status |-> Get(Block(cluster, "02"), "00")]

\* Meter.Formatting.__init__
Formatting(cluster) ==
    LET formatting == Block(cluster, "03") IN
    [unit_of_measure |-> UnitofMeasure(IF "00" \in DOMAIN formatting
                                       THEN formatting["00"]
                                       ELSE << "0", "0" >>)]

\* Meter.HistoricalConsumption.__init__: the attribute
\* current_week_consumption_delivered is assigned from "30" and then from
\* "40"; current_month_consumption_delivered is not assigned
HistoricalConsumption(cluster) ==
    LET historical_consumption == Block(cluster, "04")
        first == [current_week_consumption_delivered |->
                      IntOrNone(historical_consumption, "30")]
    IN  [first EXCEPT !.current_week_consumption_delivered =
                          IntOrNone(historical_consumption, "40")]

\* Meter.AlternativeHistoricalConsumption.__init__, with the same assignments
AlternativeHistoricalConsumption(cluster) ==
    LET alternative_historical_consumption == Block(cluster, "0C")
        first == [current_week_consumption_delivered |->
                      IntOrNone(alternative_historical_consumption, "30")]
    IN  [first EXCEPT !.current_week_consumption_delivered =
                          IntOrNone(alternative_historical_consumption, "40")]

\* Meter.__init__: the five helper classes, then self.meter, which reads
\* payload["0702"]["00"] without testing that it is there
Meter(cluster) ==
    IF "00" \notin DOMAIN cluster THEN Raised("KeyError")
    ELSE Return([reading_information_set |-> ReadingInformationSet(cluster),
                 meter_status |-> MeterStatus(cluster),
                 formatting |-> Formatting(cluster),
                 historical_consumption |-> HistoricalConsumption(cluster),
                 alternative_historical_consumption |->
                     AlternativeHistoricalConsumption(cluster),
                 meter |-> IntOrNone(cluster["00"], "00")])

\* Meter(payload[key]) if "03" in payload[key]["0702"] else None
MeterOrNone(body, key) ==
    IF key \notin DOMAIN body THEN Raised("KeyError")
    ELSE IF "03" \in DOMAIN body[key]
    THEN LET m == Meter(body[key]) IN
         IF m.kind = "raise" THEN m ELSE Return(Some(m.value))
    ELSE Return(NoValue)

\* MQTTPayload.__init__: json.loads, then the electricity meter, then the gas
\* meter
MQTTPayload(msg) ==
    IF ~msg.json THEN Raised("JSONDecodeError")
    ELSE LET electricity == MeterOrNone(msg.body, "elecMtr")
             gas == MeterOrNone(msg.body, "gasMtr")
         IN  IF electricity.kind = "raise" THEN electricity
             ELSE IF gas.kind = "raise" THEN gas
             ELSE Return([electricity |-> electricity.value, gas |-> gas.value])

\* the keys of Glow.sensors
SensorKeys == {"electricity.consumption", "gas.consumption"}

\* Glow._cb_on_message with the sensors registered: the payload is decoded
\* outside any try, then update_state is called on each registered sensor;
\* GlowConsumptionCurrent has no such method
CbOnMessage(msg, sensors) ==
    LET payload == MQTTPayload(msg) IN
    IF payload.kind = "raise" THEN payload
    ELSE IF sensors # {} THEN Raised("AttributeError")
    ELSE Return(None)

\* one call of the decoder: Meter on a "0702" map, MQTTPayload on a message,
\* or the message callback on a message
InitMqtt ==
    /\ PollIdle
    /\ \/ fn = "Meter" /\ arg \in Clusters
       \/ fn = "MQTTPayload" /\ arg \in Messages
       \/ /\ fn = "_cb_on_message"
          /\ arg \in {[msg |-> m, sensors |-> r] : m \in Messages, r \in SUBSET SensorKeys}
    /\ res = NoResult
    /\ http = << >>

\* Meter(payload) runs
MeterInit ==
    /\ fn = "Meter"
    /\ res = NoResult
    /\ res' = Meter(arg)
    /\ UNCHANGED << fn, arg, http, pollVars, glowVars >>

\* MQTTPayload(input) runs
MQTTPayloadInit ==
    /\ fn = "MQTTPayload"
    /\ res = NoResult
    /\ res' = MQTTPayload(arg)
    /\ UNCHANGED << fn, arg, http, pollVars, glowVars >>

\* the broker thread delivers the message to Glow._cb_on_message
OnMessage ==
    /\ fn = "_cb_on_message"
    /\ res = NoResult
    /\ res' = CbOnMessage(arg.msg, arg.sensors)
    /\ UNCHANGED << fn, arg, http, pollVars, glowVars >>

NextMqtt ==
    \/ MeterInit
    \/ MQTTPayloadInit
    \/ OnMessage

\* the decoder and the message callback, for every payload
SpecMqtt == InitMqtt /\ [][NextMqtt]_vars

----------------------------------------------------------------------------
(* hildebrandglow_dcc/glow.py: the token of the Glow class *)

\* the number of calls of update_token followed
MaxSets == 3

Tokens == {"T0", "T1", "T2"}

\* update_token called through self (0: through the class itself) but written
\* as an instance method that assigns self.token
UpdateTokenOnInstance(cls, objs, self, value) ==
    IF self = 0 THEN [cls |-> Some(value), objs |-> objs]
    ELSE [cls |-> cls, objs |-> [objs EXCEPT ![self].token = Some(value)]]

\* @classmethod update_token(cls, value): cls.token = value, whatever it was
\* called through; no instance gets an attribute of its own
UpdateToken(cls, objs, self, value) == [cls |-> Some(value), objs |-> objs]

\* self.token as Python looks it up: the attribute of the instance if it has
\* one, else the attribute of the class
SelfToken(i) == IF glows[i].token # NoValue THEN glows[i].token ELSE Glow_token

\* operations of an instance that send a request
RequestOps == {"retrieve_resources", "_current_data"}

\* the outcomes of a request that was sent
GlowRequestOutcomes == {Return("data"), Raised("CannotConnect"), Raised("InvalidAuth")}

\* no Glow exists and the class has no token yet
InitToken ==
    /\ PollIdle
    /\ fn = None
    /\ arg = None
    /\ res = NoResult
    /\ http = << >>

\* Glow(app_id, token): __init__ sets app_id, calls self.update_token(token)
\* and opens a session
GlowConstruct ==
    /\ Len(set_tokens) < MaxSets
    /\ \E value \in Tokens :
         LET objs == Append(glows, [app_id |-> "APP_ID", token |-> NoValue])
             u == UpdateToken(Glow_token, objs, Len(objs), value)
         IN  /\ Glow_token' = u.cls
             /\ glows' = u.objs
             /\ set_tokens' = Append(set_tokens, value)
             /\ fn' = "Glow"
             /\ arg' = value
             /\ res' = Return(Len(objs))
    /\ http' = << >>
    /\ UNCHANGED pollVars

\* update_token(value) called through the class (self = 0) or an instance
UpdateTokenCall ==
    /\ Len(set_tokens) < MaxSets
    /\ \E self \in 0..Len(glows), value \in Tokens :
         LET u == UpdateToken(Glow_token, glows, self, value)
         IN  /\ Glow_token' = u.cls
             /\ glows' = u.objs
             /\ set_tokens' = Append(set_tokens, value)
             /\ fn' = "update_token"
             /\ arg' = << self, value >>
             /\ res' = Return(None)
    /\ http' = << >>
    /\ UNCHANGED pollVars

\* Glow.handle_failed_auth: an exception of Glow.authenticate leaves it; after
\* a token was obtained it imports config_object from .config_flow, which that
\* module does not define, so that it ends in ImportError before it constructs
\* the Glow of the new token
GlowHandleFailedAuth ==
    /\ \E resp \in AuthResponses :
         LET glow_auth == Authenticate(resp)
         IN  /\ fn' = "handle_failed_auth"
             /\ arg' = resp
             /\ res' = IF glow_auth.kind = "raise" THEN glow_auth
                       ELSE Raised("ImportError")
    /\ http' = << >>
    /\ UNCHANGED << pollVars, glowVars >>

\* retrieve_resources or _current_data of instance self: the headers are built
\* from self.app_id and self.token when the request is made
GlowRequest ==
    /\ \E self \in 1..Len(glows), op \in RequestOps, out \in GlowRequestOutcomes :
         /\ fn' = op
         /\ arg' = self
         /\ http' = << [applicationId |-> glows[self].app_id, token |-> SelfToken(self)] >>
         /\ res' = out
    /\ UNCHANGED << pollVars, glowVars >>

NextToken ==
    \/ GlowConstruct
    \/ UpdateTokenCall
    \/ GlowHandleFailedAuth
    \/ GlowRequest

\* the Glow class, its instances and their requests
SpecToken == InitToken /\ [][NextToken]_vars

----------------------------------------------------------------------------
(* Properties *)

Last(seq) == seq[Len(seq)]

\* the re-authentications process p has made in the current cycle
AuthEvents(p) == {i \in 1..Len(log[p]) : log[p][i].op = "auth"}
AuthCount(p) == Cardinality(AuthEvents(p))

\* p has seen a request fail with a non-200 status in the current cycle
ObservedAuthFailure(p) ==
    \E i \in 1..Len(log[p]) : log[p][i].op # "auth" /\ log[p][i].out = "RequestFailed"

InCycle(s) == pc[s] \notin {"idle", "scheduled"}

\* C1: in one poll cycle of one sensor or of the tariff coordinator,
\* refresh_token is invoked at most once, whatever the requests return.
C1_AtMostOneRefreshPerCycle ==
    \A p \in Pollers : AuthCount(p) <= 1

\* C2: when every sensor of the config entry has seen an auth failure in the
\* same update cycle and has gone past its refresh, the authenticate endpoint
\* has been invoked exactly once in that cycle.
C2_OneRefreshServesAllSensors ==
    (\A s \in Sensors :
        /\ ObservedAuthFailure(s)
        /\ pc[s] \notin {"refresh_catchup", "refresh_readings"})
    => AuthCount("usage") + AuthCount("cost") = 1

\* C3: a re-authentication that fails is the last thing its cycle or setup
\* pass does: the cycle has ended with an exception, or the setup pass has
\* returned False, and no request and no re-authentication follows it.
C3_FailedReauthEndsCycle ==
    \A p \in Procs :
        \A i \in 1..Len(log[p]) :
            (log[p][i].op = "auth" /\ log[p][i].out # "ok")
            => /\ i = Len(log[p])
               /\ \/ pc[p] = "raised" /\ exc[p] # None
                  \/ p \in SetupPasses /\ pc[p] = "done" /\ setup_result[p] = "False"

\* C3 witness: the re-authentication of a sensor's cycle has failed after a
\* request of that cycle was refused.
C3_Witness ==
    /\ Len(log["usage"]) = 2
    /\ log["usage"][1].out = "RequestFailed"
    /\ log["usage"][2].op = "auth" /\ log["usage"][2].out = "Timeout"
    /\ exc["usage"] = "ConfigEntryNotReady"

\* C4: every request a sensor issues after a successful refresh_token of the
\* same cycle is sent with the credential that refresh obtained.
C4_RetryUsesRefreshedCredential ==
    \A s \in Sensors :
        \A i, j \in 1..Len(log[s]) :
            (i < j /\ log[s][i].op = "auth" /\ log[s][i].out = "ok"
                   /\ log[s][j].op # "auth")
            => log[s][j].cred = log[s][i].cred

\* C5: a sensor that was initialised when its cycle began fetches in that
\* cycle if and only if the minute is in 0..5 or 30..35; outside it sends no
\* request and keeps its value.
C5_WindowGatesFetch ==
    \A s \in Sensors :
        (InCycle(s) /\ prev_value[s] # NoValue)
        => IF clock \in (0..5) \cup (30..35)
           THEN pc[s] # "skipped"
           ELSE /\ pc[s] = "skipped"
                /\ log[s] = << >>
                /\ native_value[s] = prev_value[s]

\* C5 witness: an initialised sensor has skipped a cycle at minute 36, the
\* other one is fetching at the same minute because it is not initialised.
C5_Witness ==
    /\ clock = 36
    /\ prev_value["usage"] # NoValue /\ pc["usage"] = "skipped"
    /\ pc["cost"] = "readings"

\* C6: should_update is true for exactly the minutes 0..5 and 30..35.
C6_ShouldUpdateWindow ==
    fn = "should_update" => (res.value <=> arg \in (0..5) \cup (30..35))

\* C6 witness: should_update was called at minute 35 and returned true.
C6_Witness ==
    fn = "should_update" /\ arg = 35 /\ res = Return(TRUE)

\* C7: when the last readings request of a cycle ended in a timeout or a
\* connection error, the sensor's value is the one it had when the cycle began.
C7_TimeoutRetainsValue ==
    \A s \in Sensors :
        (/\ log[s] # << >>
         /\ Last(log[s]).op = "readings"
         /\ Last(log[s]).out \in {"Timeout", "ConnectionError"})
        => /\ native_value[s] = prev_value[s]
           /\ initialised[s] = (prev_value[s] # NoValue)

\* C7 witness: an initialised sensor's readings request timed out after a
\* successful re-authentication, and the cycle is over.
C7_Witness ==
    /\ prev_value["cost"] # NoValue
    /\ Len(log["cost"]) = 4
    /\ Last(log["cost"]).op = "readings" /\ Last(log["cost"]).out = "Timeout"
    /\ log["cost"][3].op = "auth"
    /\ Finished("cost")

\* the call of _current_data has ended
CurrentDataEnded == fn = "_current_data" /\ res.kind # "none"

\* the response to the url of the call, if the call got that far
UrlResponded ==
    /\ CurrentDataEnded
    /\ Last(http).url = "url"
    /\ Last(http).resp.kind = "response"

\* C8: a call of _current_data ends in InvalidAuth exactly when the response
\* to its url has status 401 or 404, whatever the body.
C8_InvalidAuthIffStatus401Or404 ==
    CurrentDataEnded
    => ((UrlResponded /\ Last(http).resp.status \in {401, 404})
        <=> res = Raised("InvalidAuth"))

\* C9 as stated: a response whose error is "incorrect elements -from in the
\* future" makes _current_data return None, whatever its status.
C9_FutureErrorReturnsNoneAnyStatus ==
    (UrlResponded /\ Last(http).resp.body = "future") => res = Return(None)

\* C9: a response with a status other than 200 whose error is "incorrect
\* elements -from in the future" makes _current_data return None without
\* raising, also with status 401 or 404.
C9_FutureErrorReturnsNone ==
    (/\ UrlResponded
     /\ Last(http).resp.body = "future"
     /\ Last(http).resp.status # 200)
    => res = Return(None)

\* C9 witness: a usage query (with catch-up) was answered 401 with the
\* future error and the call returned None.
C9_Witness ==
    /\ UrlResponded
    /\ arg.catchup
    /\ Last(http).resp = [kind |-> "response", status |-> 401, body |-> "future"]
    /\ res = Return(None)

\* C10: authenticate raises InvalidAuth exactly on valid=false, CannotConnect
\* on a timeout, returns the data with the token on valid=true, and on a
\* transport failure neither raises InvalidAuth nor returns.
C10_AuthenticateOutcomes ==
    fn \in {"authenticate", "authenticate_hg"}
    => /\ (res = Raised("InvalidAuth")) <=> (arg.kind = "json" /\ ~arg.valid)
       /\ arg.kind = "timeout" => res = Raised("CannotConnect")
       /\ (arg.kind = "json" /\ arg.valid) => res = Return(arg.token)
       /\ arg.kind = "transport" => (res.kind = "raise" /\ res.exc # "InvalidAuth")

\* the requests (not the re-authentications) p has completed in this cycle
Requests(p, op) == {i \in 1..Len(log[p]) : log[p][i].op = op}

C12_AbsentTariffIsEmptyResult ==
    \A i \in 1..Len(log[Coordinator]) :
        log[Coordinator][i].out = "UnboundLocalError"
        => /\ i = Len(log[Coordinator])
           /\ pc[Coordinator] = "done"
           /\ exc[Coordinator] = None
           /\ data = None

\* C12 witness: the second update of the coordinator found no tariff and
\* ended with an empty result.
C12_Witness ==
    /\ standing_initialised
    /\ log[Coordinator] = << Event("tariff", 0, "UnboundLocalError") >>
    /\ pc[Coordinator] = "done"
    /\ data = None

\* C13: a Cost sensor issues no request of its own in an update cycle.
C13_CostIssuesNoRequest ==
    log["cost"] = << >>

C19_UnavailableOnlyAfterFailedReauth ==
    [][(available /\ ~available')
       => \E i \in 1..Len(log'["current"]) :
             log'["current"][i].op = "auth" /\ log'["current"][i].out # "ok"]_vars

\* the supply type of a classifier
SupplyOf(classifier) ==
    IF classifier \in {"gas.consumption", "gas.consumption.cost"} THEN "gas"
    ELSE "electricity"

\* C14: for every account the sensor setup completes, and in the list given
\* to async_add_entities every Cost sensor has a meter, which is a Usage
\* sensor of the same supply type that stands earlier in the list.
C14_CostFollowsItsUsageMeter ==
    (fn = "async_setup_entry" /\ res # NoResult)
    => /\ res.kind = "return"
       /\ \A i \in 1..Len(res.value) :
            res.value[i].kind = "cost"
            => /\ res.value[i].meter # NoValue
               /\ \E j \in 1..(i - 1) :
                    /\ res.value[j].kind = "usage"
                    /\ Some(res.value[j].of) = res.value[i].meter
                    /\ SupplyOf(res.value[j].classifier) = SupplyOf(res.value[i].classifier)

\* a call of the decoder has ended
Decoded(f) == fn = f /\ res # NoResult

\* Meter has been applied to a section that MQTTPayload decodes: one whose
\* "0702" map holds "03"
DecodedSection == Decoded("Meter") /\ "03" \in DOMAIN arg

\* what a field read from key of block is when the key, or the block, is
\* missing from the "0702" map: absent; else the number under the key
Expected(cluster, block, key) == IntOrNone(Block(cluster, block), key)

\* C15: for a section that is decoded, Meter never raises, whichever other
\* sub-blocks and whichever attribute keys are missing, and a field whose key is missing is absent: the summation and the
\* meter reading are None, and the status, the supply status and the unit of
\* measure have no value, not a default.
C15_MissingKeyIsAbsentAndNeverRaises ==
    DecodedSection
    => /\ res.kind = "return"
       /\ res.value.reading_information_set.current_summation_delivered
              = Expected(arg, "00", "00")
       /\ res.value.meter = Expected(arg, "00", "00")
       /\ res.value.meter_status.status = Get(Block(arg, "02"), "00")
       /\ "14" \notin DOMAIN Block(arg, "00")
              => res.value.reading_information_set.supply_status
                     \notin {"OFF", "ARMED", "ON"}
       /\ "00" \notin DOMAIN Block(arg, "03")
              => res.value.formatting.unit_of_measure \notin {"KWH", "M3"}

\* the decoding has given a record for the meter under field
Yields(field) == res.kind = "return" /\ res.value[field] # NoValue

\* C16: for a JSON payload with both meter sections, decoding gives an
\* electricity record exactly when the "0702" map of elecMtr holds "03", and
\* a gas record exactly when that of gasMtr does, each whatever the other
\* section holds.
C16_RecordIffFormattingKey ==
    (Decoded("MQTTPayload") /\ arg.json /\ DOMAIN arg.body = MeterKeys)
    => /\ Yields("electricity") <=> "03" \in DOMAIN arg.body["elecMtr"]
       /\ Yields("gas") <=> "03" \in DOMAIN arg.body["gasMtr"]

\* C17: for a message that is not JSON or lacks a meter section, the message
\* callback returns without an exception.
C17_MalformedMessageIsDiscarded ==
    (/\ Decoded("_cb_on_message")
     /\ ~arg.msg.json \/ DOMAIN arg.msg.body # MeterKeys)
    => res.kind = "return"

\* C18: after Meter has decoded a section, in both historical blocks the
\* week field is the number under "30" and the month field is the number
\* under "40", each absent when its key is missing.
C18_WeekAndMonthAreDistinctFields ==
    DecodedSection /\ res.kind = "return"
    => /\ LET h == res.value.historical_consumption IN
          /\ "current_month_consumption_delivered" \in DOMAIN h
          /\ h.current_week_consumption_delivered = Expected(arg, "04", "30")
          /\ h.current_month_consumption_delivered = Expected(arg, "04", "40")
       /\ LET h == res.value.alternative_historical_consumption IN
          /\ "current_month_consumption_delivered" \in DOMAIN h
          /\ h.current_week_consumption_delivered = Expected(arg, "0C", "30")
          /\ h.current_month_consumption_delivered = Expected(arg, "0C", "40")

\* the minutes at which should_update is true
Window == (0..5) \cup (30..35)

\* C21: a sensor that had no value when its cycle began fetches in that
\* cycle at any minute, and initialised is true exactly when a value is
\* stored; it turns true in a cycle only with the value of the readings
\* request that has just returned.
C21_FirstUpdateFetchesAtAnyMinute ==
    \A s \in Sensors :
        /\ initialised[s] <=> native_value[s] # NoValue
        /\ (InCycle(s) /\ prev_value[s] = NoValue) => pc[s] # "skipped"
        /\ (initialised[s] /\ prev_value[s] = NoValue)
           => /\ pc[s] = "done"
              /\ Last(log[s]).op = "readings" /\ Last(log[s]).out = "ok"
              /\ \E value \in Values : native_value[s] = Some(NativeValue(s, value))

\* C21 witness: outside the window the Usage sensor, which failed to get a
\* value in an earlier cycle, is fetching, while the initialised Cost sensor
\* has skipped the cycle.
C21_Witness ==
    /\ clock = 36
    /\ ~initialised["usage"] /\ pc["usage"] = "readings"
    /\ initialised["cost"] /\ prev_value["cost"] # NoValue /\ pc["cost"] = "skipped"

\* C22: the refresh of a coordinator that begins with standing_initialised
\* unset fetches at any minute, setting rate_initialised if it is unset and
\* standing_initialised otherwise; a refresh that begins with it set fetches
\* exactly when the minute is in the window, and outside it the result is
\* empty and no request is sent.
C22_TwoUnconditionalTariffRefreshes ==
    /\ [](standing_initialised => rate_initialised)
    /\ [][(pc[Coordinator] = "scheduled" /\ pc'[Coordinator] # "scheduled")
          => IF ~standing_initialised
             THEN /\ pc'[Coordinator] = "tariff"
                  /\ IF rate_initialised
                     THEN standing_initialised'
                     ELSE rate_initialised' /\ ~standing_initialised'
             ELSE /\ pc'[Coordinator] = "tariff" <=> clock \in Window
                  /\ pc'[Coordinator] # "tariff"
                     => /\ pc'[Coordinator] = "skipped"
                        /\ data' = None
                        /\ log'[Coordinator] = << >>]_vars

\* C22 witness: both flags are set and a refresh at minute 36 has ended
\* without a request and with an empty result.
C22_Witness ==
    /\ rate_initialised /\ standing_initialised
    /\ clock = 36
    /\ pc[Coordinator] = "skipped"
    /\ log[Coordinator] = << >>
    /\ data = None

\* C24: a refresh whose tariff request was refused ends with a tariff as the
\* coordinator's data, unless the re-authentication or the retried request
\* failed.
C24_RetriedTariffBecomesData ==
    (/\ Finished(Coordinator)
     /\ log[Coordinator] # << >>
     /\ log[Coordinator][1].out = "RequestFailed")
    => \/ pc[Coordinator] = "done" /\ data \in Tariffs
       \/ \E i \in 2..Len(log[Coordinator]) : log[Coordinator][i].out # "ok"

\* C25: every refresh in which a tariff request was refused makes exactly
\* one re-authentication attempt.
C25_ReauthAllowanceIsPerCycle ==
    (Finished(Coordinator) /\ ObservedAuthFailure(Coordinator))
    => AuthCount(Coordinator) = 1

\* C27: when the platform setup of hildebrandglow has got the resource list,
\* it completes and the entities it adds are the supported resources, one
\* entity each (none when there is none).
C27_OneEntityPerSupportedResource ==
    (/\ Finished("platform")
     /\ log["platform"] # << >>
     /\ Last(log["platform"]) = Event("resources", client["platform"], "ok"))
    => /\ pc["platform"] = "done"
       /\ setup_result["platform"] = "True"
       /\ added = NewEntities(resources)

\* C28: after an update of GlowConsumptionCurrent that succeeded, the sensor
\* is available.
C28_AvailableAgainAfterSuccess ==
    (/\ pc["current"] = "done"
     /\ log["current"] # << >>
     /\ Last(log["current"]).out = "ok")
    => available

\* C29: in the list given to async_add_entities the meter of every Cost
\* sensor is a Usage sensor of the virtual entity of the cost resource.
C29_MeterOfSameVirtualEntity ==
    (fn = "async_setup_entry" /\ res.kind = "return")
    => \A i \in 1..Len(res.value) :
          res.value[i].kind = "cost"
          => \E j \in 1..Len(res.value) :
                /\ res.value[j].kind = "usage"
                /\ Some(res.value[j].of) = res.value[i].meter
                /\ res.value[j].of.ve = res.value[i].of.ve

\* C23: daily_data queries yesterday's window exactly at the times of day
\* before 01:06:00, and today's window at every later time.
C23_YesterdayBefore0106 ==
    fn = "daily_data"
    => /\ res.value \in {"yesterday", "today"}
       /\ res.value = "yesterday" <=> ~TimeLE(<< 1, 6, 0 >>, arg)

\* C26: the token of Glow is shared by all its instances: whatever
\* constructions, update_token calls and handle_failed_auth runs came before,
\* a request of any instance carries in its headers the token that was set
\* most recently.
C26_TokenSharedByAllInstances ==
    fn \in RequestOps => http[1].token = Some(Last(set_tokens))

\* two instances were constructed with different tokens and nothing else set
\* a token; the first of them then sent a request, which carried the token
\* the second was constructed with.
C26_Witness ==
    /\ Len(glows) = 2
    /\ Len(set_tokens) = 2
    /\ set_tokens[1] # set_tokens[2]
    /\ fn \in RequestOps
    /\ arg = 1
    /\ http[1].token = Some(set_tokens[2])

====
